---- MODULE Spec2Model ----
(***************************************************************************)
(* mattbench-cluster: the interned pairwise-distance table (distPairs),    *)
(* its concurrent ingestion (readAlignmentDists) and the threshold cut of  *)
(* a dendrogram (treeClusters).                                            *)
(*                                                                         *)
(* Strings are sequences of character codes: a label is a string, the     *)
(* empty label is <<>>, and Go's `<` on strings is LexLess.  The literal   *)
(* substring ".ent_" is the single code Sep.  A float64 distance is an     *)
(* integer of DistVals; make() zero-fills, so an untouched cell holds 0.   *)
(* uint16 arithmetic is arithmetic modulo IdMod.                           *)
(***************************************************************************)
EXTENDS Integers, Sequences, FiniteSets, TLC

\* ---- bounds of the model (the source's sizes, scaled down) ----
MaxChar == 3      \* label characters are 1..MaxChar
MaxDist == 1      \* distances are 0..MaxDist
IdMod == 4        \* uint16 wraps at 65536; here at IdMod
InitRows == 1     \* make([][]float64, 11000) in readAlignmentDists
RowLen == 1       \* make([]float64, 1000) and make([][]float64, 1000) in addPair
MaxAdds == 3      \* addPair calls of one run of the sequential specification
TreeAdds == 2     \* addPair calls before a dendrogram is cut
MaxNodes == 3     \* nodes of a dendrogram
NFiles == 2       \* files util.RecursiveFiles finds
Threads == 2      \* util.FlagCpu: the worker goroutines
MaxRecs == 2      \* records of the whole corpus
OverflowAdds == 3 \* addPair calls of a run that exhausts the id space

\* ---- program constants ----
SuffixLen == 5    \* p2[0 : len(p2)-5]
NumFields == 9    \* len(record) != 9
Absent == -1      \* the value dist returns for a pair it cannot find

Sep == 0          \* the substring ".ent_" of a pair identifier
Pad == MaxChar + 1 \* a character of the 5-character suffix
Chars == 1..MaxChar
Labels == {<<c>> : c \in Chars}
DistVals == 0..MaxDist

VARIABLES
  Dists,      \* dp.Dists: the rows; a nil row (or nil table) is <<>>
  Atoms,      \* dp.Atoms: label -> id
  Current,    \* dp.Current: the next id
  crashed,    \* the process has ended by a panic or a fatal exit
  written,    \* history: key pair handed to addPair -> value of its last write
  firstSeen,  \* history: the labels in the order intern first saw them
  firstId,    \* history: label -> the id intern returned for it the first time
  lastAdd,    \* history: the last addPair call (keys, returned ids, value, ...)
  nAdds,      \* history: addPair calls made so far
  files,      \* history: file -> whether its base name starts with "."
  idx,        \* the dispatch loop's position in the file list
  pcMain,     \* where the calling goroutine is
  pcW,        \* where each worker goroutine is
  wFile,      \* the fpath each worker received
  wBatch,     \* the fileDists each worker built
  pcA,        \* where the aggregator goroutine is
  aBatch,     \* what is left of the batch the aggregator is applying
  wg,         \* the WaitGroup's counter
  alignClosed, \* close(alignFile) has run
  addClosed,  \* close(addDists) has run
  corpus,     \* history: file -> the records a worker read from it
  dispatched, \* history: the files sent on alignFile
  failed,     \* history: the files a worker could not open or read
  batches,    \* history: the files whose fileDists the aggregator received
  applied,    \* history: the records whose pair addPair was called with
  tree,       \* the dendrogram given to treeClusters
  threshold,  \* flagThreshold
  clusters,   \* what treeClusters returned
  clustered   \* treeClusters has run

tableVars == <<Dists, Atoms, Current>>
histVars == <<written, firstSeen, firstId, lastAdd, nAdds, applied>>
pipeVars == <<files, idx, pcMain, pcW, wFile, wBatch, pcA, aBatch, wg,
              alignClosed, addClosed, corpus, dispatched, failed, batches>>
treeVars == <<tree, threshold, clusters, clustered>>
vars == <<Dists, Atoms, Current, crashed, written, firstSeen, firstId, lastAdd,
          nAdds, files, idx, pcMain, pcW, wFile, wBatch, pcA, aBatch, wg,
          alignClosed, addClosed, corpus, dispatched, failed, batches, applied,
          tree, threshold, clusters, clustered>>

\* ---------------------------------------------------------------- helpers

Min(a, b) == IF a < b THEN a ELSE b

\* Go's s < t on strings: bytewise, a proper prefix is smaller.
RECURSIVE LexLess(_, _)
LexLess(s, t) ==
  IF s = <<>> THEN t # <<>>
  ELSE IF t = <<>> THEN FALSE
  ELSE IF s[1] # t[1] THEN s[1] < t[1]
  ELSE LexLess(Tail(s), Tail(t))

\* make([]T, n): n zero values (0 for a float64, nil for a row).
MakeSeq(n, zero) == [i \in 1..n |-> zero]

\* copy(dst, src): the first min(len(dst), len(src)) elements of src over dst.
Copy(dst, src) ==
  [i \in 1..Len(dst) |-> IF i <= Len(src) THEN src[i] ELSE dst[i]]

\* f with key k set to v (a Go map assignment).
MapSet(f, k, v) == [x \in (DOMAIN f) \cup {k} |-> IF x = k THEN v ELSE f[x]]

DP == [Dists |-> Dists, Atoms |-> Atoms, Current |-> Current]

\* ---------------------------------------------------------------- distPairs

\* intern without the lookup of an existing label: every call takes a new id.
internAlwaysNew(dp, s) ==
  LET next == (dp.Current + 1) % IdMod
  IN [dp |-> [dp EXCEPT !.Atoms = MapSet(@, s, dp.Current), !.Current = next],
      id |-> (next - 1) % IdMod,
      panic |-> next = 0]

\* intern with the counter incremented before the label is recorded.
internIncrementFirst(dp, s) ==
  IF s \in DOMAIN dp.Atoms
  THEN [dp |-> dp, id |-> dp.Atoms[s], panic |-> FALSE]
  ELSE LET next == (dp.Current + 1) % IdMod
       IN [dp |-> [dp EXCEPT !.Atoms = MapSet(@, s, next), !.Current = next],
           id |-> (next - 1) % IdMod,
           panic |-> next = 0]

\* intern without the panic: Current wraps to 0 and interning goes on.
internWraps(dp, s) ==
  IF s \in DOMAIN dp.Atoms
  THEN [dp |-> dp, id |-> dp.Atoms[s], panic |-> FALSE]
  ELSE LET next == (dp.Current + 1) % IdMod
       IN [dp |-> [dp EXCEPT !.Atoms = MapSet(@, s, dp.Current),
                             !.Current = next],
           id |-> (next - 1) % IdMod,
           panic |-> FALSE]

\* intern: the id of s, a new one for a new label; panics when Current wraps.
intern(dp, s) ==
  IF s \in DOMAIN dp.Atoms
  THEN [dp |-> dp, id |-> dp.Atoms[s], panic |-> FALSE]
  ELSE LET next == (dp.Current + 1) % IdMod
       IN [dp |-> [dp EXCEPT !.Atoms = MapSet(@, s, dp.Current),
                             !.Current = next],
           id |-> (next - 1) % IdMod,
           panic |-> next = 0]

\* The new length addPair grows a slice of length len to, for index k.
NewLength(len, k) ==
  LET doubled == (2 * len) % IdMod
  IN IF k >= doubled THEN (k + 1) % IdMod ELSE doubled

\* The outer slice after `if k1 >= uint16(len(dp.Dists))`.
GrowOuter(d, k1) ==
  IF k1 >= Len(d) % IdMod
  THEN Copy(MakeSeq(NewLength(Len(d), k1), <<>>), d)
  ELSE d

\* Row growth without the copy of the old row.
GrowRowNoCopy(row, k2) ==
  IF k2 >= Len(row) % IdMod
  THEN MakeSeq(NewLength(Len(row), k2), 0)
  ELSE row

\* Row k1 after `if k2 >= uint16(len(dp.Dists[k1]))`.
GrowRow(row, k2) ==
  IF k2 >= Len(row) % IdMod
  THEN Copy(MakeSeq(NewLength(Len(row), k2), 0), row)
  ELSE row

\* addPair: interns both keys, grows the table and stores p.dist at [k1][k2].
addPair(dp, p) ==
  LET r1 == intern(dp, p.key[1])
      r2 == intern(r1.dp, p.key[2])
      k1 == r1.id
      k2 == r2.id
      d0 == IF r2.dp.Dists = <<>> THEN MakeSeq(RowLen, <<>>) ELSE r2.dp.Dists
      d1 == GrowOuter(d0, k1)
      row0 == IF d1[k1 + 1] = <<>> THEN MakeSeq(RowLen, 0) ELSE d1[k1 + 1]
      row1 == GrowRow(row0, k2)
      row2 == [row1 EXCEPT ![k2 + 1] = p.dist]
  IN IF r1.panic THEN [dp |-> r1.dp, ids |-> <<k1>>, panic |-> TRUE]
     ELSE IF r2.panic THEN [dp |-> r2.dp, ids |-> <<k1, k2>>, panic |-> TRUE]
     ELSE [dp |-> [r2.dp EXCEPT !.Dists = [d1 EXCEPT ![k1 + 1] = row2]],
           ids |-> <<k1, k2>>, panic |-> FALSE]

\* dist without the return for equal labels.
distNoShortcut(dp, q1, q2) ==
  LET p1 == IF LexLess(q2, q1) THEN q2 ELSE q1
      p2 == IF LexLess(q2, q1) THEN q1 ELSE q2
  IN IF p1 \notin DOMAIN dp.Atoms THEN Absent
     ELSE IF p2 \notin DOMAIN dp.Atoms THEN Absent
     ELSE LET k1 == dp.Atoms[p1]
              k2 == dp.Atoms[p2]
          IN IF k1 >= Len(dp.Dists) % IdMod THEN Absent
             ELSE IF k2 >= Len(dp.Dists[k1 + 1]) % IdMod THEN Absent
             ELSE dp.Dists[k1 + 1][k2 + 1]

\* dist without the swap of lines 137-141.
distNoSwap(dp, q1, q2) ==
  IF q1 = q2 THEN 0
  ELSE IF q1 \notin DOMAIN dp.Atoms THEN Absent
  ELSE IF q2 \notin DOMAIN dp.Atoms THEN Absent
  ELSE LET k1 == dp.Atoms[q1]
           k2 == dp.Atoms[q2]
       IN IF k1 >= Len(dp.Dists) % IdMod THEN Absent
          ELSE IF k2 >= Len(dp.Dists[k1 + 1]) % IdMod THEN Absent
          ELSE dp.Dists[k1 + 1][k2 + 1]

\* dist: 0 for equal labels, Absent for a label or cell it cannot find.
dist(dp, q1, q2) ==
  IF q1 = q2 THEN 0
  ELSE
    LET p1 == IF LexLess(q2, q1) THEN q2 ELSE q1
        p2 == IF LexLess(q2, q1) THEN q1 ELSE q2
    IN IF p1 \notin DOMAIN dp.Atoms THEN Absent
       ELSE IF p2 \notin DOMAIN dp.Atoms THEN Absent
       ELSE LET k1 == dp.Atoms[p1]
                k2 == dp.Atoms[p2]
            IN IF k1 >= Len(dp.Dists) % IdMod THEN Absent
               ELSE IF k2 >= Len(dp.Dists[k1 + 1]) % IdMod THEN Absent
               ELSE dp.Dists[k1 + 1][k2 + 1]

\* The index expressions dist evaluates without the guard of line 154: both
\* dp.Dists[k1] and dp.Dists[k1][k2] for every interned pair.
distReadsUnchecked(dp, q1, q2) ==
  IF q1 = q2 THEN {}
  ELSE
    LET p1 == IF LexLess(q2, q1) THEN q2 ELSE q1
        p2 == IF LexLess(q2, q1) THEN q1 ELSE q2
    IN IF p1 \notin DOMAIN dp.Atoms \/ p2 \notin DOMAIN dp.Atoms THEN {}
       ELSE LET k1 == dp.Atoms[p1]
                k2 == dp.Atoms[p2]
                outer == [len |-> Len(dp.Dists), idx |-> k1]
            IN IF k1 >= Len(dp.Dists) THEN {outer}
               ELSE {outer, [len |-> Len(dp.Dists[k1 + 1]), idx |-> k2]}

\* The index expressions dist evaluates, each as the length of the slice and
\* the index applied to it: dp.Dists[k1] in the second operand of `||` and in
\* the return, dp.Dists[k1][k2] in the return.  An index >= the length is a
\* run-time panic.
distReads(dp, q1, q2) ==
  IF q1 = q2 THEN {}
  ELSE
    LET p1 == IF LexLess(q2, q1) THEN q2 ELSE q1
        p2 == IF LexLess(q2, q1) THEN q1 ELSE q2
    IN IF p1 \notin DOMAIN dp.Atoms THEN {}
       ELSE IF p2 \notin DOMAIN dp.Atoms THEN {}
       ELSE LET k1 == dp.Atoms[p1]
                k2 == dp.Atoms[p2]
                outer == [len |-> Len(dp.Dists), idx |-> k1]
            IN IF k1 >= Len(dp.Dists) % IdMod THEN {}
               ELSE IF k2 >= Len(dp.Dists[k1 + 1]) % IdMod THEN {outer}
               ELSE {outer, [len |-> Len(dp.Dists[k1 + 1]), idx |-> k2]}

\* Variant of lookup that interns a label it does not find.
lookupInterns(dp, s) == intern(dp, s).dp

\* The distPairs after `k, ok = dp.Atoms[s]`: a map read assigns nothing.
lookup(dp, s) == dp

\* The distPairs after dist(q1, q2): the read of p1, and the read of p2 when
\* p1 was found; the return for equal labels comes before both.
distEffect(dp, q1, q2) ==
  IF q1 = q2 THEN dp
  ELSE
    LET p1 == IF LexLess(q2, q1) THEN q2 ELSE q1
        p2 == IF LexLess(q2, q1) THEN q1 ELSE q2
    IN IF p1 \notin DOMAIN dp.Atoms THEN lookup(dp, p1)
       ELSE lookup(lookup(dp, p1), p2)

\* ---------------------------------------------------------------- records

\* strings.SplitN(s, ".ent_", 2): s itself when it holds no separator, else
\* the part before the first separator and everything after it.
SplitN2(s) ==
  IF \E i \in 1..Len(s) : s[i] = Sep
  THEN LET i == CHOOSE j \in 1..Len(s) :
                  s[j] = Sep /\ \A h \in 1..(j - 1) : s[h] # Sep
       IN <<SubSeq(s, 1, i - 1), SubSeq(s, i + 1, Len(s))>>
  ELSE <<s>>

\* The distance the transform of lines 168-175 gives for the record's
\* numeric fields; the model carries the result as the record's field v.
distOf(record) == record.v

\* recordToDist without the ordering of the two labels.
recordToDistUnordered(record) ==
  LET namePieces == SplitN2(record.name)
  IN IF Len(namePieces) # 2 THEN [fatal |-> TRUE, panic |-> FALSE]
     ELSE LET p1 == namePieces[1]
              q2 == namePieces[2]
          IN IF Len(q2) < SuffixLen THEN [fatal |-> TRUE, panic |-> TRUE]
             ELSE [fatal |-> FALSE,
                   key |-> <<p1, SubSeq(q2, 1, Len(q2) - SuffixLen)>>,
                   dist |-> distOf(record)]

\* recordToDist with the larger of the two labels first.
recordToDistLargerFirst(record) ==
  LET r == recordToDistUnordered(record)
  IN IF r.fatal THEN r
     ELSE IF LexLess(r.key[1], r.key[2])
          THEN [r EXCEPT !.key = <<r.key[2], r.key[1]>>]
          ELSE r

\* recordToDist: the two labels of the pair identifier, smaller first, and
\* the distance.  fatal: the run ends here, either because the identifier has
\* no ".ent_" (util.Fatalf, panic FALSE) or because its second piece is
\* shorter than the suffix and the slice expression of line 166 panics with
\* "slice bounds out of range" (panic TRUE).
recordToDist(record) ==
  LET namePieces == SplitN2(record.name)
  IN IF Len(namePieces) # 2 THEN [fatal |-> TRUE, panic |-> FALSE]
     ELSE LET p1 == namePieces[1]
              q2 == namePieces[2]
          IN IF Len(q2) < SuffixLen THEN [fatal |-> TRUE, panic |-> TRUE]
             ELSE LET p2 == SubSeq(q2, 1, Len(q2) - SuffixLen)
                  IN IF LexLess(p1, p2)
                     THEN [fatal |-> FALSE, key |-> <<p1, p2>>, dist |-> distOf(record)]
                     ELSE [fatal |-> FALSE, key |-> <<p2, p1>>, dist |-> distOf(record)]

\* The pair identifier "<a>.ent_<b>XXXXX".
Name(a, b) == a \o <<Sep>> \o b \o MakeSeq(SuffixLen, Pad)

\* The well-formed 9-field records over the labels.
Records ==
  {[nf |-> NumFields, name |-> Name(a, b), v |-> v] :
     a \in Labels, b \in Labels, v \in DistVals}

\* The pair a worker appends for a record, with the identifier it came from.
Pair(record) ==
  LET p == recordToDist(record)
  IN [key |-> p.key, dist |-> p.dist, name |-> record.name]

\* ---------------------------------------------------------------- state

Workers == 1..Threads

\* readAlignmentDists after it has made the table and the channels and started
\* its goroutines: every worker waits on alignFile, the aggregator on addDists,
\* the caller enters the dispatch loop.  No dendrogram is cut yet.
Init ==
  /\ Dists = MakeSeq(InitRows, <<>>)
  /\ Atoms = <<>>
  /\ Current = 0
  /\ crashed = FALSE
  /\ written = <<>>
  /\ firstSeen = <<>>
  /\ firstId = <<>>
  /\ lastAdd = <<>>
  /\ nAdds = 0
  /\ files = <<>>
  /\ idx = 1
  /\ pcMain = "dispatch"
  /\ pcW = [w \in Workers |-> "recv"]
  /\ wFile = [w \in Workers |-> 0]
  /\ wBatch = [w \in Workers |-> <<>>]
  /\ pcA = "recv"
  /\ aBatch = <<>>
  /\ wg = Threads
  /\ alignClosed = FALSE
  /\ addClosed = FALSE
  /\ corpus = <<>>
  /\ dispatched = {}
  /\ failed = {}
  /\ batches = <<>>
  /\ applied = <<>>
  /\ tree = [Label |-> <<>>, Children |-> <<>>]
  /\ threshold = 0
  /\ clusters = <<>>
  /\ clustered = FALSE

\* The labels of keys that dp has not interned, in the order intern meets them.
NewLabels(dp, keys) ==
  SelectSeq(IF keys[1] = keys[2] THEN <<keys[1]>> ELSE keys,
            LAMBDA s : s \notin DOMAIN dp.Atoms)

\* One dists.addPair(pair) of the aggregator's loop, with its history.  When
\* the first intern panics the second label is never interned.
ApplyPair(p) ==
  LET r == addPair(DP, p)
      met == NewLabels(DP, p.key)
      new == IF Len(r.ids) = 1 THEN SubSeq(met, 1, 1) ELSE met
      idOf(s) == IF s = p.key[1] THEN r.ids[1] ELSE r.ids[2]
  IN /\ Dists' = r.dp.Dists
     /\ Atoms' = r.dp.Atoms
     /\ Current' = r.dp.Current
     /\ crashed' = r.panic
     /\ written' = IF r.panic THEN written ELSE MapSet(written, p.key, p.dist)
     /\ firstSeen' = firstSeen \o new
     /\ firstId' = [s \in (DOMAIN firstId) \cup {new[i] : i \in 1..Len(new)} |->
                      IF s \in DOMAIN firstId THEN firstId[s] ELSE idOf(s)]
     /\ lastAdd' = [key |-> p.key, ids |-> r.ids, dist |-> p.dist, name |-> p.name,
                    old |-> IF p.key \in DOMAIN written THEN written[p.key] ELSE Absent,
                    grew |-> Len(r.dp.Dists) > Len(Dists)
                             \/ \E i \in 1..Len(Dists) :
                                  Dists[i] # <<>> /\ Len(r.dp.Dists[i]) > Len(Dists[i])]
     /\ nAdds' = nAdds + 1
     /\ applied' = Append(applied, [name |-> p.name, dist |-> p.dist])

\* ------------------------------------------------- sequential ingestion

\* The aggregator's view of ingestion: the pairs of the records, one at a time.
AddRecordUpTo(n) ==
  /\ ~crashed
  /\ ~clustered
  /\ nAdds < n
  /\ \E record \in Records :
       ~recordToDist(record).fatal /\ ApplyPair(Pair(record))

AddRecord == AddRecordUpTo(MaxAdds) /\ UNCHANGED <<pipeVars, treeVars>>

TableNext == AddRecord

SpecTable == Init /\ [][TableNext]_vars

\* ------------------------------------------- ingestion past the id space

\* One label more than there are ids.
WideLabels == {<<c>> : c \in 1..(IdMod + 1)}

WideRecords ==
  {[nf |-> NumFields, name |-> Name(a, b), v |-> MaxDist] :
     a \in WideLabels, b \in WideLabels}

\* The aggregator's addPair calls for a corpus with more labels than ids.
AddWide ==
  /\ ~crashed
  /\ ~clustered
  /\ nAdds < OverflowAdds
  /\ \E record \in WideRecords : ApplyPair(Pair(record))
  /\ UNCHANGED <<pipeVars, treeVars>>

OverflowNext == AddWide

SpecOverflow == Init /\ [][OverflowNext]_vars

\* ------------------------------------------------- readAlignmentDists

\* A record with other than 9 fields.
Ragged == [nf |-> NumFields - 1, name |-> <<>>, v |-> 0]

\* A 9-field record whose identifier holds no ".ent_": "AXXXXX".
NoSep == [nf |-> NumFields, name |-> <<1>> \o MakeSeq(SuffixLen, Pad), v |-> 0]

\* A 9-field record whose identifier holds ".ent_" twice: "A.ent_B.ent_CXXXXX".
TwoSep ==
  [nf |-> NumFields,
   name |-> <<1, Sep, 2, Sep, 3>> \o MakeSeq(SuffixLen, Pad),
   v |-> 0]

\* A 9-field record whose identifier splits in two and whose second piece
\* is shorter than the suffix: "A.ent_B".
ShortSuffix == [nf |-> NumFields, name |-> <<1, Sep, 2>>, v |-> 0]

\* What csvr.ReadAll can return for a record.
PipeRecords == Records \cup {Ragged, NoSep, TwoSep, ShortSuffix}

\* The sequences over S of length at most n.
SeqsUpTo(S, n) == UNION {[1..k -> S] : k \in 0..n}

\* The records read so far, over all files.
RecsRead == LET RECURSIVE sum(_)
                sum(F) == IF F = {} THEN 0
                          ELSE LET f == CHOOSE x \in F : TRUE
                               IN Len(corpus[f]) + sum(F \ {f})
            IN sum(DOMAIN corpus)

\* The records of a file that the worker's loop does not skip.
NineFields(records) == SelectSeq(records, LAMBDA r : r.nf = NumFields)

\* Variant of Batch that leaves the loop at the first record with other than
\* 9 fields.
BatchUntilRagged(records) ==
  LET stop == IF \E i \in 1..Len(records) : records[i].nf # NumFields
              THEN CHOOSE i \in 1..Len(records) :
                     /\ records[i].nf # NumFields
                     /\ \A h \in 1..(i - 1) : records[h].nf = NumFields
              ELSE Len(records) + 1
  IN [i \in 1..(stop - 1) |-> Pair(records[i])]

\* fileDists: one pair per 9-field record, in the file's order.
Batch(records) ==
  LET nine == NineFields(records)
  IN [i \in 1..Len(nine) |-> Pair(nine[i])]

\* The dispatch loop skips a file whose base name starts with ".".
MainSkip ==
  /\ ~crashed /\ pcMain = "dispatch" /\ idx <= NFiles
  /\ files' = Append(files, TRUE)
  /\ idx' = idx + 1
  /\ UNCHANGED <<tableVars, crashed, histVars, treeVars, pcMain, pcW, wFile,
                 wBatch, pcA, aBatch, wg, alignClosed, addClosed, corpus,
                 dispatched, failed, batches>>

\* alignFile <- fpath meets a worker's `range alignFile` (unbuffered channel).
MainSend(w) ==
  /\ ~crashed /\ pcMain = "dispatch" /\ idx <= NFiles
  /\ pcW[w] = "recv"
  /\ files' = Append(files, FALSE)
  /\ idx' = idx + 1
  /\ dispatched' = dispatched \cup {idx}
  /\ wFile' = [wFile EXCEPT ![w] = idx]
  /\ pcW' = [pcW EXCEPT ![w] = "read"]
  /\ UNCHANGED <<tableVars, crashed, histVars, treeVars, pcMain, wBatch, pcA,
                 aBatch, wg, alignClosed, addClosed, corpus, failed, batches>>

\* close(alignFile) after the loop.
MainCloseAlign ==
  /\ ~crashed /\ pcMain = "dispatch" /\ idx > NFiles
  /\ alignClosed' = TRUE
  /\ pcMain' = "wait"
  /\ UNCHANGED <<tableVars, crashed, histVars, treeVars, files, idx, pcW, wFile,
                 wBatch, pcA, aBatch, wg, addClosed, corpus, dispatched, failed, batches>>

\* wg.Wait() returns when the counter is 0.
MainWait ==
  /\ ~crashed /\ pcMain = "wait" /\ wg = 0
  /\ pcMain' = "closeAdd"
  /\ UNCHANGED <<tableVars, crashed, histVars, treeVars, files, idx, pcW, wFile,
                 wBatch, pcA, aBatch, wg, alignClosed, addClosed, corpus,
                 dispatched, failed, batches>>

\* close(addDists).
MainCloseAdd ==
  /\ ~crashed /\ pcMain = "closeAdd"
  /\ addClosed' = TRUE
  /\ pcMain' = "recvDone"
  /\ UNCHANGED <<tableVars, crashed, histVars, treeVars, files, idx, pcW, wFile,
                 wBatch, pcA, aBatch, wg, alignClosed, corpus, dispatched, failed, batches>>

\* Variant of MainRecvDone that returns without receiving from done.
MainReturnsEarly ==
  /\ ~crashed /\ pcMain = "recvDone"
  /\ pcMain' = "returned"
  /\ UNCHANGED <<tableVars, crashed, histVars, treeVars, files, idx, pcW, wFile,
                 wBatch, pcA, aBatch, wg, alignClosed, addClosed, corpus,
                 dispatched, failed, batches>>

\* <-done meets the aggregator's done <- struct{}{}; then return dists.
MainRecvDone ==
  /\ ~crashed /\ pcMain = "recvDone" /\ pcA = "sendDone"
  /\ pcMain' = "returned"
  /\ pcA' = "exit"
  /\ UNCHANGED <<tableVars, crashed, histVars, treeVars, files, idx, pcW, wFile,
                 wBatch, aBatch, wg, alignClosed, addClosed, corpus, dispatched, failed, batches>>

\* Variant of WorkerRead in which the worker stores the pair of a one-record
\* file into the table itself instead of sending it to the aggregator.
WorkerReadApplies(w) ==
  /\ ~crashed /\ pcW[w] = "read" /\ RecsRead < MaxRecs
  /\ \E record \in Records :
       /\ corpus' = MapSet(corpus, wFile[w], <<record>>)
       /\ ApplyPair(Pair(record))
  /\ pcW' = [pcW EXCEPT ![w] = "send"]
  /\ UNCHANGED <<treeVars, files, idx, pcMain, wFile, wBatch, pcA, aBatch, wg,
                 alignClosed, addClosed, dispatched, failed, batches>>

\* A worker opens and reads its file and builds fileDists; util.OpenFile,
\* util.Assert(err) and recordToDist end the process on a failure.
WorkerReadFrom(w, S) ==
  /\ ~crashed /\ pcW[w] = "read"
  /\ \E records \in SeqsUpTo(S, MaxRecs - RecsRead) :
       /\ corpus' = MapSet(corpus, wFile[w], records)
       /\ IF \E i \in 1..Len(records) :
               records[i].nf = NumFields /\ recordToDist(records[i]).fatal
          THEN crashed' = TRUE /\ UNCHANGED <<wBatch, pcW>>
          ELSE /\ crashed' = FALSE
               /\ wBatch' = [wBatch EXCEPT ![w] = Batch(records)]
               /\ pcW' = [pcW EXCEPT ![w] = "send"]
  /\ UNCHANGED <<tableVars, histVars, treeVars, files, idx, pcMain, wFile, pcA,
                 aBatch, wg, alignClosed, addClosed, dispatched, failed, batches>>

\* A worker reads a file whose records are any that csvr.ReadAll can return.
WorkerRead(w) == WorkerReadFrom(w, PipeRecords)

\* Variant of WorkerReadFails that passes over the file it cannot read and
\* sends an empty batch.
WorkerReadSkips(w) ==
  /\ ~crashed /\ pcW[w] = "read"
  /\ failed' = failed \cup {wFile[w]}
  /\ wBatch' = [wBatch EXCEPT ![w] = <<>>]
  /\ pcW' = [pcW EXCEPT ![w] = "send"]
  /\ UNCHANGED <<tableVars, crashed, histVars, treeVars, files, idx, pcMain,
                 wFile, pcA, aBatch, wg, alignClosed, addClosed, corpus,
                 dispatched, batches>>

\* The file cannot be opened or read: util.OpenFile / util.Assert end the
\* process.
WorkerReadFails(w) ==
  /\ ~crashed /\ pcW[w] = "read"
  /\ failed' = failed \cup {wFile[w]}
  /\ crashed' = TRUE
  /\ UNCHANGED <<tableVars, histVars, treeVars, files, idx, pcMain, pcW, wFile,
                 wBatch, pcA, aBatch, wg, alignClosed, addClosed, corpus,
                 dispatched, batches>>

\* addDists <- fileDists meets the aggregator's `range addDists`.
WorkerSend(w) ==
  /\ ~crashed /\ pcW[w] = "send" /\ pcA = "recv"
  /\ aBatch' = wBatch[w]
  /\ pcA' = IF wBatch[w] = <<>> THEN "recv" ELSE "apply"
  /\ wBatch' = [wBatch EXCEPT ![w] = <<>>]
  /\ pcW' = [pcW EXCEPT ![w] = "recv"]
  /\ batches' = Append(batches, wFile[w])
  /\ UNCHANGED <<tableVars, crashed, histVars, treeVars, files, idx, pcMain,
                 wFile, wg, alignClosed, addClosed, corpus, dispatched, failed>>

\* Variant of WorkerExit without wg.Done().
WorkerExitNoDone(w) ==
  /\ ~crashed /\ pcW[w] = "recv" /\ alignClosed
  /\ pcW' = [pcW EXCEPT ![w] = "exit"]
  /\ UNCHANGED <<tableVars, crashed, histVars, treeVars, files, idx, pcMain,
                 wFile, wBatch, pcA, aBatch, wg, alignClosed, addClosed, corpus,
                 dispatched, failed, batches>>

\* `range alignFile` ends on the closed channel; wg.Done().
WorkerExit(w) ==
  /\ ~crashed /\ pcW[w] = "recv" /\ alignClosed
  /\ pcW' = [pcW EXCEPT ![w] = "exit"]
  /\ wg' = wg - 1
  /\ UNCHANGED <<tableVars, crashed, histVars, treeVars, files, idx, pcMain,
                 wFile, wBatch, pcA, aBatch, alignClosed, addClosed, corpus,
                 dispatched, failed, batches>>

\* Variant of AggApply that leaves the inner loop after the first pair of a
\* batch.
AggApplyFirstOnly ==
  /\ ~crashed /\ pcA = "apply" /\ aBatch # <<>>
  /\ ApplyPair(Head(aBatch))
  /\ aBatch' = <<>>
  /\ pcA' = "recv"
  /\ UNCHANGED <<treeVars, files, idx, pcMain, pcW, wFile, wBatch, wg,
                 alignClosed, addClosed, corpus, dispatched, failed, batches>>

\* The aggregator's inner loop: dists.addPair(pair) for the next pair.
AggApply ==
  /\ ~crashed /\ pcA = "apply" /\ aBatch # <<>>
  /\ ApplyPair(Head(aBatch))
  /\ aBatch' = Tail(aBatch)
  /\ pcA' = IF Tail(aBatch) = <<>> THEN "recv" ELSE "apply"
  /\ UNCHANGED <<treeVars, files, idx, pcMain, pcW, wFile, wBatch, wg,
                 alignClosed, addClosed, corpus, dispatched, failed, batches>>

\* `range addDists` ends on the closed channel.
AggClosed ==
  /\ ~crashed /\ pcA = "recv" /\ addClosed
  /\ pcA' = "sendDone"
  /\ UNCHANGED <<tableVars, crashed, histVars, treeVars, files, idx, pcMain, pcW,
                 wFile, wBatch, aBatch, wg, alignClosed, addClosed, corpus,
                 dispatched, failed, batches>>

PipeNext ==
  \/ MainSkip
  \/ \E w \in Workers : MainSend(w)
  \/ MainCloseAlign
  \/ MainWait
  \/ MainCloseAdd
  \/ MainRecvDone
  \/ \E w \in Workers : WorkerRead(w)
  \/ \E w \in Workers : WorkerReadFails(w)
  \/ \E w \in Workers : WorkerSend(w)
  \/ \E w \in Workers : WorkerExit(w)
  \/ AggApply
  \/ AggClosed

SpecPipe == Init /\ [][PipeNext]_vars

\* The records of the files of the scheduling analysis: two well-formed
\* records, a short one and one with a malformed identifier.
FairRecords ==
  {[nf |-> NumFields, name |-> Name(<<1>>, <<2>>), v |-> MaxDist],
   [nf |-> NumFields, name |-> Name(<<3>>, <<2>>), v |-> 0],
   Ragged, NoSep}

\* A worker reads a file of the scheduling analysis.
WorkerReadFair(w) == WorkerReadFrom(w, FairRecords)

FairNext ==
  \/ MainSkip
  \/ \E w \in Workers : MainSend(w)
  \/ MainCloseAlign
  \/ MainWait
  \/ MainCloseAdd
  \/ MainRecvDone
  \/ \E w \in Workers : WorkerReadFair(w)
  \/ \E w \in Workers : WorkerReadFails(w)
  \/ \E w \in Workers : WorkerSend(w)
  \/ \E w \in Workers : WorkerExit(w)
  \/ AggApply
  \/ AggClosed

\* The pipeline under the scheduler's guarantee that, as long as some
\* goroutine can take a step, a step is eventually taken.
SpecPipeFair == Init /\ [][FairNext]_vars /\ WF_vars(FairNext)

\* ------------------------------------------------------------ treeClusters

\* A newick.Tree node is [Label |-> string, Children |-> sequence of nodes];
\* the empty label is <<>>.
TreeLabels == Labels \cup {<<>>}

\* The trees of exactly n nodes, and the child lists of n nodes in all.
RECURSIVE TreesOfSize(_), ForestsOfSize(_)
TreesOfSize(n) ==
  IF n < 1 THEN {}
  ELSE {[Label |-> l, Children |-> c] : l \in TreeLabels, c \in ForestsOfSize(n - 1)}

ForestsOfSize(n) ==
  IF n = 0 THEN {<<>>}
  ELSE UNION {{<<t>> \o f : t \in TreesOfSize(k), f \in ForestsOfSize(n - k)} :
                k \in 1..n}

Trees == UNION {TreesOfSize(n) : n \in 1..MaxNodes}

Thresholds == Absent..MaxDist

\* forNode visits the nodes of t in pre-order: the node, then each child's
\* subtree in turn. The sequence of nodes it visits when f never stops it.
RECURSIVE forNode(_), forNodeChildren(_)
forNode(t) == <<t>> \o forNodeChildren(t.Children)

forNodeChildren(ts) ==
  IF ts = <<>> THEN <<>> ELSE forNode(Head(ts)) \o forNodeChildren(Tail(ts))

\* Variant of within whose inner traversal starts at node1 instead of the
\* root of the subtree under test.
withinOwnSubtree(th, dp, t) ==
  LET outer == forNode(t)
  IN \A i \in 1..Len(outer) :
       \/ outer[i].Label = <<>>
       \/ LET inner == forNode(outer[i])
          IN \A j \in 1..Len(inner) :
               \/ inner[j].Label = <<>>
               \/ dist(dp, outer[i].Label, inner[j].Label) <= th

\* within with the comparison turned round.
withinAtLeast(th, dp, t) ==
  LET nodes == forNode(t)
  IN \A i \in 1..Len(nodes) :
       \/ nodes[i].Label = <<>>
       \/ \A j \in 1..Len(nodes) :
            \/ nodes[j].Label = <<>>
            \/ dist(dp, nodes[i].Label, nodes[j].Label) >= th

\* within: forNode stops at the first false, so it is true exactly when the
\* test holds for every labelled node1 and every labelled node2 of the tree.
within(th, dp, t) ==
  LET nodes == forNode(t)
  IN \A i \in 1..Len(nodes) :
       \/ nodes[i].Label = <<>>
       \/ \A j \in 1..Len(nodes) :
            \/ nodes[j].Label = <<>>
            \/ dist(dp, nodes[i].Label, nodes[j].Label) <= th

\* The cluster of a subtree that is within the threshold: the label of every
\* labelled node, in pre-order.
cluster(t) ==
  LET nodes == forNode(t)
      labelled == SelectSeq(nodes, LAMBDA n : n.Label # <<>>)
  IN [i \in 1..Len(labelled) |-> labelled[i].Label]

\* The label pairs the two nested traversals of the within test compare, in
\* the order they are met.
pairsOf(t) ==
  LET labels == cluster(t)
      n == Len(labels)
  IN [k \in 1..(n * n) |-> <<labels[((k - 1) \div n) + 1], labels[((k - 1) % n) + 1]>>]

\* The distPairs after the within test: the lookups up to and including the
\* first pair above the threshold.
RECURSIVE withinEffect(_, _, _)
withinEffect(th, dp, pairs) ==
  IF pairs = <<>> THEN dp
  ELSE LET p == Head(pairs)
           after == distEffect(dp, p[1], p[2])
       IN IF dist(dp, p[1], p[2]) <= th
          THEN withinEffect(th, after, Tail(pairs))
          ELSE after

\* The distPairs after treeClusters(th, dp, t) has returned.
RECURSIVE treeClustersEffect(_, _, _), childEffect(_, _, _)
treeClustersEffect(th, dp, t) ==
  IF t.Children = <<>> THEN dp
  ELSE LET after == withinEffect(th, dp, pairsOf(t))
       IN IF within(th, dp, t) THEN after
          ELSE childEffect(th, after, t.Children)

childEffect(th, dp, ts) ==
  IF ts = <<>> THEN dp
  ELSE childEffect(th, treeClustersEffect(th, dp, Head(ts)), Tail(ts))

RECURSIVE treeClusters(_, _, _), childClusters(_, _, _)
treeClusters(th, dp, t) ==
  IF t.Children = <<>>
  THEN IF t.Label # <<>> THEN <<(<<t.Label>>)>> ELSE <<>>
  ELSE IF within(th, dp, t) THEN <<cluster(t)>>
  ELSE childClusters(th, dp, t.Children)

\* The loop over tree.Children, appending each child's clusters.
childClusters(th, dp, ts) ==
  IF ts = <<>> THEN <<>>
  ELSE treeClusters(th, dp, Head(ts)) \o childClusters(th, dp, Tail(ts))

\* Ingestion before clustering.
TreeAdd == AddRecordUpTo(TreeAdds) /\ UNCHANGED <<pipeVars, treeVars>>

\* main: clusters := treeClusters(flagThreshold, dists, tree).
Cluster ==
  /\ ~crashed /\ ~clustered
  /\ \E t \in Trees, th \in Thresholds :
       /\ tree' = t
       /\ threshold' = th
       /\ clusters' = treeClusters(th, DP, t)
       /\ Dists' = treeClustersEffect(th, DP, t).Dists
       /\ Atoms' = treeClustersEffect(th, DP, t).Atoms
       /\ Current' = treeClustersEffect(th, DP, t).Current
  /\ clustered' = TRUE
  /\ UNCHANGED <<crashed, histVars, pipeVars>>

TreeNext == TreeAdd \/ Cluster

SpecTree == Init /\ [][TreeNext]_vars

\* -------------------------------------------------------------------- main

\* The dendrograms and the threshold of the whole-program runs: a root with
\* one child, cut at 0.
MainTrees == TreesOfSize(2)

MainThresholds == {0}

\* main after readAlignmentDists has returned: read the tree, cut it, write
\* the clusters.
MainCluster ==
  /\ ~crashed /\ ~clustered
  /\ pcMain = "returned"
  /\ \E t \in MainTrees, th \in MainThresholds :
       /\ tree' = t
       /\ threshold' = th
       /\ clusters' = treeClusters(th, DP, t)
       /\ Dists' = treeClustersEffect(th, DP, t).Dists
       /\ Atoms' = treeClustersEffect(th, DP, t).Atoms
       /\ Current' = treeClustersEffect(th, DP, t).Current
  /\ clustered' = TRUE
  /\ UNCHANGED <<crashed, histVars, pipeVars>>

MainNext == PipeNext \/ MainCluster

SpecMain == Init /\ [][MainNext]_vars

\* ---------------------------------------------------------------- claims

\* The two labels of a pair identifier, in the order the identifier names them.
RawLabels(name) ==
  LET ps == SplitN2(name)
  IN <<ps[1], SubSeq(ps[2], 1, Len(ps[2]) - SuffixLen)>>

\* The pair (a, b) has not been written, in either key order.
NeverWritten(a, b) == <<a, b>> \notin DOMAIN written /\ <<b, a>> \notin DOMAIN written

\* The nodes of a sequence that have a label and no children.
LabelledLeaves(nodes) ==
  SelectSeq(nodes, LAMBDA n : n.Label # <<>> /\ n.Children = <<>>)

\* How many members of the clusters carry the label.
Emitted(label) ==
  LET RECURSIVE count(_)
      count(cs) == IF cs = <<>> THEN 0
                   ELSE Len(SelectSeq(Head(cs), LAMBDA m : m = label))
                        + count(Tail(cs))
  IN count(clusters)

\* C1 as stated: the clusters partition the labelled leaves: each label is
\* emitted once per leaf that carries it, and a label no leaf carries (an
\* internal node's label) is never emitted.
C1_PartitionsLabelledLeaves ==
  clustered =>
    \A label \in Labels :
      Emitted(label)
        = Len(SelectSeq(LabelledLeaves(forNode(tree)), LAMBDA n : n.Label = label))

\* C2: any two members of a returned cluster whose lookup finds a distance
\* have a distance <= threshold, and when their labels differ and a record
\* stored a distance for them, the stored distance is <= threshold.
C2_ClusterWithinThreshold ==
  clustered =>
    \A c \in 1..Len(clusters) :
      \A i \in 1..Len(clusters[c]), j \in 1..Len(clusters[c]) :
        i # j =>
          LET p == clusters[c][i]
              q == clusters[c][j]
          IN /\ dist(DP, p, q) # Absent => dist(DP, p, q) <= threshold
             /\ p # q =>
                  \A k \in {<<p, q>>, <<q, p>>} :
                    k \in DOMAIN written => written[k] <= threshold

\* C2 witness: a subtree with two leaves was returned as one cluster, their
\* pair holds a stored non-zero distance equal to the threshold, and another
\* pair of the table holds a different distance.
C2_Witness ==
  /\ clustered
  /\ Len(clusters) = 1 /\ Len(clusters[1]) = 2
  /\ LET p == clusters[1][1]
         q == clusters[1][2]
     IN /\ p # q
        /\ \E k \in {<<p, q>>, <<q, p>>} :
             k \in DOMAIN written /\ written[k] = threshold /\ threshold > 0
  /\ \E k \in DOMAIN written : written[k] # threshold

\* The 9-field records of the files read, in file order.
RECURSIVE CorpusFrom(_)
CorpusFrom(f) ==
  IF f > NFiles THEN <<>>
  ELSE (IF f \in DOMAIN corpus THEN NineFields(corpus[f]) ELSE <<>>)
       \o CorpusFrom(f + 1)

\* The table that results from storing the pairs of the records one after
\* the other, starting from the table readAlignmentDists allocates.
RECURSIVE StoreAll(_, _)
StoreAll(dp, records) ==
  IF records = <<>> THEN dp
  ELSE StoreAll(addPair(dp, Pair(Head(records))).dp, Tail(records))

\* The table after dispatching the files in index order, one at a time.
RefDP ==
  StoreAll([Dists |-> MakeSeq(InitRows, <<>>), Atoms |-> <<>>, Current |-> 0],
           CorpusFrom(1))

\* No unordered label pair occurs in more than one record of the corpus.
PairUnique ==
  LET recs == CorpusFrom(1)
  IN \A i \in 1..Len(recs), j \in 1..Len(recs) :
       i # j => recordToDist(recs[i]).key # recordToDist(recs[j]).key

\* C3: every step that changes Dists, Atoms or Current (or counts an addPair)
\* is one addPair of the aggregator's loop on the head of the batch it holds:
\* no worker and not the dispatcher moves in that step, and each such step is
\* exactly one addPair.
C3_OnlyAggregatorMutates ==
  [][(tableVars' # tableVars \/ nAdds' # nAdds) =>
       /\ pcA = "apply" /\ aBatch # <<>>
       /\ aBatch' = Tail(aBatch)
       /\ nAdds' = nAdds + 1
       /\ lastAdd'.key = Head(aBatch).key
       /\ pcW' = pcW /\ wBatch' = wBatch /\ wFile' = wFile /\ wg' = wg
       /\ pcMain' = pcMain /\ idx' = idx]_vars

\* C3 witness: the aggregator has stored a pair and is about to store the
\* next one while a worker is reading a file and the dispatcher is still in
\* its loop.
C3_Witness ==
  /\ nAdds >= 1 /\ pcA = "apply" /\ aBatch # <<>>
  /\ \E w \in Workers : pcW[w] = "read"
  /\ pcMain = "dispatch"

\* C4: when readAlignmentDists has returned, every non-hidden file has been
\* dispatched and read, every worker has finished, the aggregator has stored
\* the pair of every 9-field record read and has ended, and the table does
\* not change any more.
C4_ReturnsAfterAllApplied ==
  /\ [](pcMain = "returned" =>
          /\ idx = NFiles + 1 /\ Len(files) = NFiles
          /\ \A f \in 1..NFiles :
               ~files[f] => f \in dispatched /\ f \in DOMAIN corpus
          /\ \A w \in Workers : pcW[w] = "exit" /\ wBatch[w] = <<>>
          /\ wg = 0
          /\ pcA = "exit" /\ aBatch = <<>>
          /\ nAdds = Len(CorpusFrom(1))
          /\ \A i \in 1..Len(CorpusFrom(1)) :
               recordToDist(CorpusFrom(1)[i]).key \in DOMAIN written)
  /\ [][pcMain = "returned" => tableVars' = tableVars /\ nAdds' = nAdds]_vars

\* C4 witness: the function has returned after skipping a hidden file and
\* storing two pairs.
C4_Witness ==
  /\ pcMain = "returned"
  /\ nAdds = 2
  /\ \E f \in 1..NFiles : files[f]
  /\ pcA = "exit"

\* C5 as stated: for a pair-unique corpus, once readAlignmentDists has
\* returned, dist gives for every two labels what it gives when the files
\* are dispatched one at a time in index order.
C5_OrderIndependent ==
  (pcMain = "returned" /\ PairUnique) =>
    \A p \in Labels, q \in Labels : dist(DP, p, q) = dist(RefDP, p, q)

\* The labels a lookup is made with: the labels of the records, the empty
\* label and a label no record holds.
QueryLabels == Labels \cup {<<>>, <<1, 1>>}

\* C11: dist(x, x) is 0 for every label x in every table state, interned or
\* not, and also when the table behind the interner is nil or the whole
\* distPairs is empty: the result does not come from the table.
C11_Reflexivity ==
  \A x \in QueryLabels :
    /\ dist(DP, x, x) = 0
    /\ dist([Dists |-> <<>>, Atoms |-> Atoms, Current |-> Current], x, x) = 0
    /\ dist([Dists |-> <<>>, Atoms |-> <<>>, Current |-> 0], x, x) = 0

\* C11 witness: a label whose self-pair holds a stored non-zero distance and
\* a label that was never interned both have distance 0 to themselves.
C11_Witness ==
  /\ \E x \in Labels :
       /\ <<x, x>> \in DOMAIN written /\ written[<<x, x>>] # 0
       /\ Dists[Atoms[x] + 1][Atoms[x] + 1] # 0
       /\ dist(DP, x, x) = 0
  /\ \E y \in Labels : y \notin DOMAIN Atoms /\ dist(DP, y, y) = 0

\* C12: for every two labels dist applies no index outside its slice, and it
\* returns Absent when either label is not interned, when no addPair ever
\* allocated the row of the first id (the row is nil or beyond the table),
\* or when that row is shorter than the second id requires.
C12_DistNeverFails ==
  \A q1 \in QueryLabels, q2 \in QueryLabels :
    /\ \A r \in distReads(DP, q1, q2) : r.idx < r.len
    /\ q1 # q2 =>
         LET p1 == IF LexLess(q2, q1) THEN q2 ELSE q1
             p2 == IF LexLess(q2, q1) THEN q1 ELSE q2
         IN /\ (p1 \notin DOMAIN Atoms \/ p2 \notin DOMAIN Atoms)
                 => dist(DP, q1, q2) = Absent
            /\ (\A k \in DOMAIN written : k[1] # p1) => dist(DP, q1, q2) = Absent
            /\ (p1 \in DOMAIN Atoms /\ p2 \in DOMAIN Atoms) =>
                 /\ Atoms[p1] >= Len(Dists) => dist(DP, q1, q2) = Absent
                 /\ (Atoms[p1] < Len(Dists)
                       /\ Atoms[p2] >= Len(Dists[Atoms[p1] + 1]))
                      => dist(DP, q1, q2) = Absent

\* C12 witness: in one table an interned pair has a nil row inside the table,
\* another interned pair has an allocated row too short for its second id,
\* and both lookups return Absent.
C12_Witness ==
  /\ \E p \in Labels, q \in Labels :
       /\ LexLess(p, q) /\ p \in DOMAIN Atoms /\ q \in DOMAIN Atoms
       /\ Atoms[p] < Len(Dists) /\ Dists[Atoms[p] + 1] = <<>>
       /\ dist(DP, p, q) = Absent /\ dist(DP, q, p) = Absent
  /\ \E p \in Labels, q \in Labels :
       /\ LexLess(p, q) /\ p \in DOMAIN Atoms /\ q \in DOMAIN Atoms
       /\ Atoms[p] < Len(Dists) /\ Dists[Atoms[p] + 1] # <<>>
       /\ Atoms[q] >= Len(Dists[Atoms[p] + 1])
       /\ dist(DP, p, q) = Absent

\* C13: no two labels ever hold the same id, every label keeps the id it was
\* first given, and the run has aborted as soon as as many labels as there
\* are ids have been interned: the counter has wrapped to 0, and no label
\* is interned after that.
C13_OverflowAborts ==
  /\ \A s \in DOMAIN Atoms, t \in DOMAIN Atoms : s # t => Atoms[s] # Atoms[t]
  /\ \A s \in DOMAIN firstId : s \in DOMAIN Atoms /\ Atoms[s] = firstId[s]
  /\ Cardinality(DOMAIN Atoms) <= IdMod
  /\ Cardinality(DOMAIN Atoms) = IdMod => crashed
  /\ crashed <=> (Current = 0 /\ Atoms # <<>>)

\* C13 witness: the run has aborted in an addPair whose label took the last
\* id, IdMod - 1, and further labels were still to come.
C13_Witness ==
  /\ crashed
  /\ Cardinality(DOMAIN Atoms) = IdMod
  /\ Current = 0
  /\ \E s \in DOMAIN Atoms : Atoms[s] = IdMod - 1 /\ firstSeen[IdMod] = s
  /\ nAdds < OverflowAdds

\* C14: once a worker has failed to open or read a file the process has
\* ended: readAlignmentDists has not returned and never returns, no
\* dendrogram is cut, no clusters exist, and nothing moves any more.
C14_ReadFailureAborts ==
  /\ [](failed # {} =>
          /\ crashed
          /\ pcMain # "returned"
          /\ ~clustered /\ clusters = <<>>)
  /\ [][failed = {}]_vars

\* C14 witness: a file could not be read after the aggregator had already
\* stored a pair of another file, and the caller is still inside
\* readAlignmentDists.
C14_Witness ==
  /\ failed # {}
  /\ nAdds >= 1 /\ written # <<>>
  /\ \E f \in DOMAIN corpus : f \notin failed
  /\ pcMain \in {"dispatch", "wait"}
  /\ ~clustered

\* How often ".ent_" occurs in an identifier.
Occurrences(name) == Cardinality({i \in 1..Len(name) : name[i] = Sep})

\* C15: the batch a worker has built holds exactly one pair for each 9-field
\* record of its file, in the file's order, whatever records with another
\* field count stand before, between or after them; and a run that ended
\* without a read failure ended on a malformed 9-field record or on the
\* interner's overflow, never on a record with another field count.
C15_RaggedSkipped ==
  /\ \A w \in Workers :
       pcW[w] = "send" =>
         LET recs == corpus[wFile[w]]
             rank(i) == Cardinality({h \in 1..i : recs[h].nf = NumFields})
         IN /\ Len(wBatch[w]) = rank(Len(recs))
            /\ \A i \in 1..Len(recs) :
                 recs[i].nf = NumFields => wBatch[w][rank(i)].name = recs[i].name
  /\ (crashed /\ failed = {}) =>
       \/ \E f \in DOMAIN corpus : \E i \in 1..Len(corpus[f]) :
            corpus[f][i].nf = NumFields /\ recordToDist(corpus[f][i]).fatal
       \/ Current = 0 /\ Atoms # <<>>

\* C15 witness: a worker read a file whose first record has 8 fields and
\* whose second has 9, and its batch is the pair of the second.
C15_Witness ==
  \E w \in Workers :
    /\ pcW[w] = "send" /\ ~crashed
    /\ Len(corpus[wFile[w]]) = 2
    /\ corpus[wFile[w]][1].nf # NumFields
    /\ corpus[wFile[w]][2].nf = NumFields
    /\ Len(wBatch[w]) = 1
    /\ wBatch[w][1].name = corpus[wFile[w]][2].name

\* C16 as stated: a 9-field record whose identifier holds ".ent_" not exactly
\* once ends the run with a format error, so that no pair comes from it.
C16_ExactlyTwoPieces ==
  \A f \in DOMAIN corpus :
    \A i \in 1..Len(corpus[f]) :
      (corpus[f][i].nf = NumFields /\ Occurrences(corpus[f][i].name) # 1)
        => /\ crashed
           /\ \A k \in DOMAIN written :
                Occurrences(k[1]) = 0 /\ Occurrences(k[2]) = 0

LeafLabels ==
  LET leaves == LabelledLeaves(forNode(tree))
  IN [i \in 1..Len(leaves) |-> leaves[i].Label]

\* A record stored a distance <= threshold for the two labels.
StoredWithin(p, q) ==
  \E k \in {<<p, q>>, <<q, p>>} : k \in DOMAIN written /\ written[k] <= threshold

\* C19 as stated: two labelled leaves whose distance is absent from the
\* table are never returned in one cluster: the node above them is not
\* collapsed, whatever the threshold.
C19_AbsentForcesDescent ==
  clustered =>
    \A c \in 1..Len(clusters) :
      \A i \in 1..Len(clusters[c]), j \in 1..Len(clusters[c]) :
        LET p == clusters[c][i]
            q == clusters[c][j]
        IN (/\ i # j /\ p # q
            /\ \E m \in 1..Len(LeafLabels) : LeafLabels[m] = p
            /\ \E m \in 1..Len(LeafLabels) : LeafLabels[m] = q)
             => dist(DP, p, q) # Absent

\* C20 as stated: the root of a dendrogram with children is returned as the
\* one cluster of its labelled leaves in pre-order when every two labelled
\* leaves have a stored distance <= threshold, and otherwise the clusters are
\* those of its children.
C20_CollapseIffAllPairsStored ==
  (clustered /\ tree.Children # <<>>) =>
    IF \A i \in 1..Len(LeafLabels), j \in 1..Len(LeafLabels) :
         i # j => StoredWithin(LeafLabels[i], LeafLabels[j])
    THEN clusters = <<LeafLabels>>
    ELSE clusters = childClusters(threshold, DP, tree.Children)

\* The labels of the labelled leaves of a subtree, in pre-order.
LeafLabelsOf(t) ==
  LET leaves == LabelledLeaves(forNode(t))
  IN [i \in 1..Len(leaves) |-> leaves[i].Label]

\* The labels p and q are members of two different returned clusters.
SplitApart(p, q) ==
  \E c \in 1..Len(clusters), d \in 1..Len(clusters) :
    /\ c # d
    /\ \E i \in 1..Len(clusters[c]) : clusters[c][i] = p
    /\ \E j \in 1..Len(clusters[d]) : clusters[d][j] = q

\* The dendrogram with the label of every node that has children removed.
RECURSIVE StripInternal(_), StripInternalAll(_)
StripInternal(t) ==
  IF t.Children = <<>> THEN t
  ELSE [Label |-> <<>>, Children |-> StripInternalAll(t.Children)]

StripInternalAll(ts) ==
  IF ts = <<>> THEN <<>>
  ELSE <<StripInternal(Head(ts))>> \o StripInternalAll(Tail(ts))

\* C21 as stated: when two labelled leaves under different children of a
\* node (the node is their lowest common ancestor) are returned in different
\* clusters, two labelled leaves of that node's subtree have a distance
\* above the threshold or an absent one.
C21_SplitHasFailingLeafPair ==
  clustered =>
    \A n \in 1..Len(forNode(tree)) :
      LET s == forNode(tree)[n]
          leaves == LeafLabelsOf(s)
      IN \A a \in 1..Len(s.Children), b \in 1..Len(s.Children) :
           a # b =>
             \A i \in 1..Len(LeafLabelsOf(s.Children[a])),
                j \in 1..Len(LeafLabelsOf(s.Children[b])) :
               LET p == LeafLabelsOf(s.Children[a])[i]
                   q == LeafLabelsOf(s.Children[b])[j]
               IN (p # q /\ SplitApart(p, q)) =>
                    \E x \in 1..Len(leaves), y \in 1..Len(leaves) :
                      /\ x # y
                      /\ \/ dist(DP, leaves[x], leaves[y]) > threshold
                         \/ dist(DP, leaves[x], leaves[y]) = Absent

\* C22 as stated: no returned cluster is empty.
C22_NoEmptyCluster ==
  clustered => \A c \in 1..Len(clusters) : clusters[c] # <<>>

\* C23 as stated: the clusters are those of the same dendrogram with the
\* labels of all its internal nodes removed.
C23_InternalLabelsIrrelevant ==
  clustered => clusters = treeClusters(threshold, DP, StripInternal(tree))

\* The smaller and the larger label of the pair a record names.
Ordered(name) ==
  LET ab == RawLabels(name)
  IN IF LexLess(ab[2], ab[1]) THEN <<ab[2], ab[1]>> ELSE ab

\* C24 as stated: every write goes to a cell whose row id is not greater than
\* its column id, and every populated cell has row id <= column id.
C24_RowIdNotAboveColumnId ==
  ~crashed =>
    /\ lastAdd # <<>> => lastAdd.ids[1] <= lastAdd.ids[2]
    /\ \A r \in 1..Len(Dists) : \A c \in 1..Len(Dists[r]) :
         Dists[r][c] # 0 => r <= c

\* C24 (amended): after any sequence of addPair calls produced by ingestion
\* only one cell per pair is populated, the one whose row is the id of the
\* lexicographically smaller label and whose column is the id of the larger
\* label: every write goes there, and every non-zero cell is the cell of a
\* written pair.  Ids are given in order of first appearance, so the row id
\* may be greater than the column id.
C24_CanonicalCellByLabel ==
  ~crashed =>
    /\ lastAdd # <<>> =>
         LET lh == Ordered(lastAdd.name)
         IN /\ lastAdd.key = lh
            /\ lastAdd.ids = <<Atoms[lh[1]], Atoms[lh[2]]>>
            /\ Dists[Atoms[lh[1]] + 1][Atoms[lh[2]] + 1] = lastAdd.dist
    /\ \A r \in 1..Len(Dists) : \A c \in 1..Len(Dists[r]) :
         Dists[r][c] # 0 =>
           \E k \in DOMAIN written :
             /\ ~LexLess(k[2], k[1])
             /\ Atoms[k[1]] = r - 1 /\ Atoms[k[2]] = c - 1
             /\ written[k] = Dists[r][c]

\* C24 witness: a non-zero value has just been written to a cell whose row id
\* is greater than its column id, the row being the id of the smaller label.
C24_Witness ==
  /\ ~crashed /\ lastAdd # <<>>
  /\ lastAdd.dist # 0
  /\ lastAdd.ids[1] > lastAdd.ids[2]
  /\ LexLess(lastAdd.key[1], lastAdd.key[2])
  /\ Dists[lastAdd.ids[1] + 1][lastAdd.ids[2] + 1] = lastAdd.dist

\* C25: recordToDist gives the same key, smaller label first, for the two
\* records that name a pair of labels in either order; the cell the last
\* record was written to is the cell a record naming its pair in the opposite
\* order would be written to; and for two distinct labels dist reads that cell
\* whichever way round it is asked.
C25_OppositeOrdersOneCell ==
  /\ \A a \in Labels, b \in Labels, v \in DistVals :
       LET ab == recordToDist([nf |-> NumFields, name |-> Name(a, b), v |-> v])
           ba == recordToDist([nf |-> NumFields, name |-> Name(b, a), v |-> v])
       IN /\ ~ab.fatal /\ ~ba.fatal
          /\ ab.key = ba.key
          /\ ~LexLess(ab.key[2], ab.key[1])
  /\ \A k \in DOMAIN written : k[1] # k[2] => <<k[2], k[1]>> \notin DOMAIN written
  /\ (lastAdd # <<>> /\ ~crashed) =>
       LET ab == RawLabels(lastAdd.name)
           opposite == [nf |-> NumFields, name |-> Name(ab[2], ab[1]), v |-> lastAdd.dist]
           cell == Dists[lastAdd.ids[1] + 1][lastAdd.ids[2] + 1]
       IN /\ addPair(DP, Pair(opposite)).ids = lastAdd.ids
          /\ ab[1] # ab[2] =>
               /\ dist(DP, ab[1], ab[2]) = cell
               /\ dist(DP, ab[2], ab[1]) = cell
               /\ distReads(DP, ab[1], ab[2]) = distReads(DP, ab[2], ab[1])

\* C25 witness: two records that name the same two labels in opposite orders
\* with different values have been applied one after the other; one key is
\* written and both lookups give the second record's value.
C25_Witness ==
  /\ ~crashed /\ Len(applied) = 2
  /\ LET first == RawLabels(applied[1].name)
         second == RawLabels(applied[2].name)
     IN /\ first[1] # first[2]
        /\ second = <<first[2], first[1]>>
        /\ applied[1].dist # applied[2].dist
        /\ Cardinality(DOMAIN written) = 1
        /\ dist(DP, first[1], first[2]) = applied[2].dist
        /\ dist(DP, first[2], first[1]) = applied[2].dist

\* How often x occurs in the sequence seq.
Count(seq, x) == Cardinality({i \in 1..Len(seq) : seq[i] = x})

\* The records of a batch as the history of addPair calls writes them.
AppliedOf(pairs) ==
  [i \in 1..Len(pairs) |-> [name |-> pairs[i].name, dist |-> pairs[i].dist]]

\* The records of the batches of the files fs, batch after batch.
RECURSIVE Delivered(_)
Delivered(fs) ==
  IF fs = <<>> THEN <<>>
  ELSE AppliedOf(Batch(corpus[Head(fs)])) \o Delivered(Tail(fs))

\* C26: in a run that has not been ended by a read or format error, every
\* dispatched file is either held by exactly one worker (which is reading it or
\* waiting to send its batch) or has had exactly one batch received by the
\* aggregator; hidden files are never dispatched or read; the addPair calls made
\* so far followed by the pairs left in the aggregator's current batch are
\* exactly the 9-field records of the received batches, batch after batch, each
\* once; and when readAlignmentDists has returned every non-hidden file has had
\* its one batch received and every 9-field record of the corpus has been
\* applied exactly as often as it occurs there.
C26_ExactlyOnce ==
  ~crashed =>
    /\ \A f \in dispatched :
         Cardinality({w \in Workers : wFile[w] = f /\ pcW[w] \in {"read", "send"}})
           + Count(batches, f) = 1
    /\ \A i \in 1..Len(batches) :
         batches[i] \in dispatched /\ batches[i] \in DOMAIN corpus
    /\ \A f \in 1..Len(files) :
         files[f] => f \notin dispatched /\ f \notin DOMAIN corpus
    /\ applied \o AppliedOf(aBatch) = Delivered(batches)
    /\ \A w \in Workers :
         pcW[w] = "send" => wBatch[w] = Batch(corpus[wFile[w]])
    /\ pcMain = "returned" =>
         /\ aBatch = <<>>
         /\ \A f \in 1..NFiles : Count(batches, f) = (IF files[f] THEN 0 ELSE 1)
         /\ Len(applied) = Len(CorpusFrom(1))
         /\ \A i \in 1..Len(CorpusFrom(1)) :
              LET rec == CorpusFrom(1)[i]
              IN Count(applied, [name |-> rec.name, dist |-> distOf(rec)])
                   = Count(CorpusFrom(1), rec)

\* C26 witness: readAlignmentDists has returned after the batch of the second
\* file was received before the batch of the first, each with one record,
\* and the two records were applied in that order.
C26_Witness ==
  /\ ~crashed /\ pcMain = "returned"
  /\ batches = <<2, 1>>
  /\ Len(applied) = 2
  /\ Len(NineFields(corpus[1])) = 1 /\ Len(NineFields(corpus[2])) = 1
  /\ applied[1].name = NineFields(corpus[2])[1].name
  /\ applied[2].name = NineFields(corpus[1])[1].name
  /\ applied[1].name # applied[2].name

\* The first 9-field record of a file's records that recordToDist does not
\* return from, or <<>> when it returns from all of them.
FirstFatal(records) ==
  LET bad == SelectSeq(NineFields(records), LAMBDA rec : recordToDist(rec).fatal)
  IN IF bad = <<>> THEN <<>> ELSE <<bad[1]>>

\* The pair identifier splits in two pieces and the second is shorter than the
\* suffix recordToDist strips.
SecondPieceShort(rec) ==
  /\ Len(SplitN2(rec.name)) = 2
  /\ Len(SplitN2(rec.name)[2]) < SuffixLen

\* C27 as stated: when the record that ends a worker's read is a 9-field
\* record whose identifier splits in two with a second piece shorter than the
\* suffix, the run has been ended by the format-error exit, not by a panic of
\* the slice expression.
C27_ShortSuffixIsFormatError ==
  \A f \in DOMAIN corpus :
    (FirstFatal(corpus[f]) # <<>> /\ SecondPieceShort(FirstFatal(corpus[f])[1])) =>
      /\ crashed
      /\ ~recordToDist(FirstFatal(corpus[f])[1]).panic

\* C28: under fair scheduling every run in which no read or format error ends
\* the process reaches the return of readAlignmentDists (no state before it is
\* one in which dispatcher, workers and aggregator all wait for each other),
\* and at the return every worker has left its loop and signalled the
\* WaitGroup and the aggregator has completed its send on done.
C28_EventuallyReturns ==
  /\ <>(pcMain = "returned" \/ crashed)
  /\ [](pcMain = "returned" =>
          /\ \A w \in Workers : pcW[w] = "exit"
          /\ pcA = "exit"
          /\ wg = 0 /\ alignClosed /\ addClosed)

\* C28 witness: readAlignmentDists has returned after each of the two workers
\* read one file and the aggregator received both batches.
C28_Witness ==
  /\ ~crashed /\ pcMain = "returned"
  /\ \A w \in Workers : pcW[w] = "exit" /\ wFile[w] # 0
  /\ wFile[1] # wFile[2]
  /\ Len(batches) = NFiles
  /\ pcA = "exit"

\* The top-most subtrees that are a labelled leaf or pass the all-pairs test,
\* from left to right.
RECURSIVE Cuts(_, _, _), CutsOfAll(_, _, _)
Cuts(th, dp, t) ==
  IF t.Children = <<>>
  THEN IF t.Label # <<>> THEN <<t>> ELSE <<>>
  ELSE IF within(th, dp, t) THEN <<t>>
  ELSE CutsOfAll(th, dp, t.Children)

CutsOfAll(th, dp, ts) ==
  IF ts = <<>> THEN <<>>
  ELSE Cuts(th, dp, Head(ts)) \o CutsOfAll(th, dp, Tail(ts))

\* C29 as stated: the clusters are, one for one, the labelled leaves of the
\* top-most subtrees that are a labelled leaf or pass the all-pairs test.
C29_ClustersAreLeafSetsOfCuts ==
  clustered =>
    LET cuts == Cuts(threshold, DP, tree)
    IN clusters = [i \in 1..Len(cuts) |-> LeafLabelsOf(cuts[i])]

\* The labels of a cluster as a set.
Members(c) == {c[i] : i \in 1..Len(c)}

\* C30: for the dendrogram and table of the state and any two thresholds
\* t1 <= t2, every cluster treeClusters returns at t1 is a subset of a cluster
\* it returns at t2; the clusters of the state are those of its threshold.
C30_MonotoneInThreshold ==
  clustered =>
    /\ clusters = treeClusters(threshold, DP, tree)
    /\ \A t1 \in Thresholds, t2 \in Thresholds :
         t1 <= t2 =>
           LET low == treeClusters(t1, DP, tree)
               high == treeClusters(t2, DP, tree)
           IN \A c \in 1..Len(low) :
                \E d \in 1..Len(high) : Members(low[c]) \subseteq Members(high[d])

\* C30 witness: at threshold 0 two leaves whose stored distance is above 0
\* are returned as two clusters, and at the larger threshold the same
\* dendrogram and table give one cluster holding both.
C30_Witness ==
  /\ clustered /\ threshold = 0
  /\ Len(clusters) = 2
  /\ Len(clusters[1]) = 1 /\ Len(clusters[2]) = 1
  /\ dist(DP, clusters[1][1], clusters[2][1]) = MaxDist
  /\ LET high == treeClusters(MaxDist, DP, tree)
     IN /\ Len(high) = 1
        /\ Members(clusters[1]) \cup Members(clusters[2]) \subseteq Members(high[1])

\* C6 as stated: after any sequence of addPair calls, dist returns for every
\* written label pair the value of the most recent write to it.
C6_LastWriteAnyPair ==
  \A k \in DOMAIN written : dist(DP, k[1], k[2]) = written[k]

\* C6 (amended): after any sequence of addPair calls none of which raised an
\* error, dist returns for every written pair of two distinct labels the value
\* of the most recent write to it, whatever growth of the outer array or of a
\* row and whatever overwrite happened since; for a pair of a label with
\* itself dist returns 0.
C6_LastWriteWins ==
  /\ ~crashed
  /\ \A k \in DOMAIN written :
       dist(DP, k[1], k[2]) = (IF k[1] = k[2] THEN 0 ELSE written[k])

\* C6 witness: a third write replaces the value of a pair of distinct labels by
\* a different one, after a write that grew the table kept another pair.
C6_Witness ==
  /\ nAdds = 3
  /\ Cardinality(DOMAIN written) = 2
  /\ lastAdd.old \in DistVals /\ lastAdd.old # lastAdd.dist
  /\ lastAdd.key[1] # lastAdd.key[2]
  /\ Len(Dists) > InitRows
  /\ \A k \in DOMAIN written : k[1] # k[2] /\ dist(DP, k[1], k[2]) = written[k]
  /\ \E k \in DOMAIN written : written[k] # 0 /\ k # lastAdd.key

C8_AbsentNeverZero ==
  \A a \in Labels, b \in Labels :
    (a # b /\ NeverWritten(a, b)) => dist(DP, a, b) = Absent

\* C9: interning an already seen label returns the id it got the first time,
\* the N interned labels hold N pairwise distinct ids, the ids are exactly
\* 0..N-1 and Current = N.
C9_InternDeterminism ==
  ~crashed =>
    LET N == Cardinality(DOMAIN Atoms)
    IN /\ lastAdd # <<>> =>
            \A i \in 1..2 : lastAdd.ids[i] = firstId[lastAdd.key[i]]
       /\ \A s \in DOMAIN Atoms, t \in DOMAIN Atoms : s # t => Atoms[s] # Atoms[t]
       /\ {Atoms[s] : s \in DOMAIN Atoms} = 0..(N - 1)
       /\ Current = N

\* C9 witness: three labels are interned and the last addPair interned two
\* labels that both had an id already.
C9_Witness ==
  /\ Cardinality(DOMAIN Atoms) = 3
  /\ nAdds = 3
  /\ Len(firstSeen) = 3
  /\ lastAdd.key[1] # lastAdd.key[2]
  /\ lastAdd.old = Absent
  /\ lastAdd.ids[1] = firstId[lastAdd.key[1]] /\ lastAdd.ids[1] = 2
  /\ lastAdd.ids[2] = firstId[lastAdd.key[2]] /\ lastAdd.ids[2] = 0

\* C10: the k-th distinct label interned got id k-1, and every label that
\* ever got an id is still in Atoms with that same id.
C10_FirstSeenOrder ==
  /\ DOMAIN firstId = {firstSeen[k] : k \in 1..Len(firstSeen)}
  /\ \A k \in 1..Len(firstSeen) : firstId[firstSeen[k]] = k - 1
  /\ \A s \in DOMAIN firstId : s \in DOMAIN Atoms /\ Atoms[s] = firstId[s]

\* C10 witness: the labels were first seen in an order that is not their
\* lexicographic order, and the table has grown since the first id was given.
C10_Witness ==
  /\ Len(firstSeen) = 3
  /\ LexLess(firstSeen[3], firstSeen[1])
  /\ Len(Dists) > InitRows
  /\ Atoms[firstSeen[1]] = 0 /\ Atoms[firstSeen[3]] = 2

====
